---- MODULE Spec2Model ----
(***************************************************************************)
(* A model of typecalm (src/src/index.ts): the guard composition engine,   *)
(* its error policy (errorHandler / forceError) and the predicate is().    *)
(*                                                                         *)
(* A JavaScript value is a record tagged by t.  A guard is a record tagged *)
(* by g that names the closure the factory returned for it.  One factory   *)
(* is modelled: its configuration (customErrorHandler present or not), its *)
(* private flag forceError, and the outcome of the last top-level call.    *)
(***************************************************************************)
EXTENDS Integers, Sequences, FiniteSets, TLC

(***************************************************************************)
(* Bounds of the checked universe.                                         *)
(***************************************************************************)
\* longest input array
MaxLen == 2
\* most properties of an input object, most fields of a declared shape
MaxFields == 2

(***************************************************************************)
(* JavaScript values.                                                      *)
(***************************************************************************)
Undefined == [t |-> "undefined"]
Null == [t |-> "null"]
NaN == [t |-> "nan"]
Num(n) == [t |-> "number", n |-> n]
Str(s) == [t |-> "string", s |-> s]
Bool(b) == [t |-> "boolean", b |-> b]
BigInt(n) == [t |-> "bigint", n |-> n]
\* items: the elements, in index order
Arr(items) == [t |-> "array", items |-> items]
\* props: the own enumerable properties <<[k |-> key, v |-> value], ...>> in
\* the order for-in visits them
Obj(props) == [t |-> "object", props |-> props]
Prop(k, v) == [k |-> k, v |-> v]

\* the typeof operator
TypeOf(val) ==
    CASE val.t \in {"number", "nan"} -> "number"
      [] val.t \in {"null", "array", "object"} -> "object"
      [] OTHER -> val.t

IsArray(val) == val.t = "array"

(***************************************************************************)
(* Strings of digits.                                                      *)
(***************************************************************************)
Digits == <<"0", "1", "2", "3", "4", "5", "6", "7", "8", "9">>

CharAt(s, i) == SubSeq(s, i, i)

IsDigit(c) == \E d \in DOMAIN Digits : Digits[d] = c

DigitValue(c) == (CHOOSE d \in DOMAIN Digits : Digits[d] = c) - 1

AllDigits(s) == Len(s) > 0 /\ \A i \in 1..Len(s) : IsDigit(CharAt(s, i))

RECURSIVE ParseDigits(_)
ParseDigits(s) ==
    IF Len(s) = 0 THEN 0
    ELSE ParseDigits(SubSeq(s, 1, Len(s) - 1)) * Len(Digits) + DigitValue(CharAt(s, Len(s)))

\* a property key that is an array index ("0", "1", "10", not "01"): for-in
\* visits these first, in ascending numeric order
IsIndexKey(k) == AllDigits(k) /\ (Len(k) = 1 \/ CharAt(k, 1) # "0")


(***************************************************************************)
(* Sequences of values and of property keys.                               *)
(***************************************************************************)
RECURSIVE SortedSeq(_)
\* the numbers of S in ascending order
SortedSeq(S) ==
    IF S = {} THEN <<>>
    ELSE LET m == CHOOSE x \in S : \A y \in S : x <= y
         IN <<m>> \o SortedSeq(S \ {m})

\* The order in which for-in visits the own properties of an object created
\* with its properties in the order of ps (a sequence of records with a key
\* k): index keys first, ascending, then the other keys as created.
ForInOrder(ps) ==
    LET idx == {ParseDigits(ps[i].k) : i \in {j \in DOMAIN ps : IsIndexKey(ps[j].k)}}
        at(n) == CHOOSE i \in DOMAIN ps : IsIndexKey(ps[i].k) /\ ParseDigits(ps[i].k) = n
        sorted == SortedSeq(idx)
    IN [i \in DOMAIN sorted |-> ps[at(sorted[i])]]
       \o SelectSeq(ps, LAMBDA p : ~IsIndexKey(p.k))

HasKey(ps, k) == \E i \in DOMAIN ps : ps[i].k = k

\* val[k]
GetProp(val, k) ==
    CASE val.t = "object" ->
           IF HasKey(val.props, k)
           THEN val.props[CHOOSE i \in DOMAIN val.props : val.props[i].k = k].v
           ELSE Undefined
      [] val.t = "array" ->
           IF IsIndexKey(k) /\ ParseDigits(k) < Len(val.items)
           THEN val.items[ParseDigits(k) + 1]
           ELSE IF k = "length" THEN Num(Len(val.items)) ELSE Undefined
      [] OTHER -> Undefined

\* out[k] = v on a plain object out
SetProp(out, k, v) ==
    IF HasKey(out.props, k)
    THEN Obj([i \in DOMAIN out.props |->
                 IF out.props[i].k = k THEN Prop(k, v) ELSE out.props[i]])
    ELSE Obj(ForInOrder(Append(out.props, Prop(k, v))))

\* the keys for (const k in val) visits, in order
ForInKeys(val) ==
    CASE val.t = "object" -> [i \in DOMAIN val.props |-> val.props[i].k]
      [] val.t = "array" -> [i \in DOMAIN val.items |-> ToString(i - 1)]
      [] OTHER -> <<>>

(***************************************************************************)
(* Conversions: String(val), Number(val), Boolean(val), JSON.stringify.    *)
(***************************************************************************)
RECURSIVE ToStr(_)
RECURSIVE JoinFrom(_, _)
\* Array.prototype.join(","): null and undefined elements give ""
JoinFrom(items, i) ==
    IF i > Len(items) THEN ""
    ELSE (IF items[i].t \in {"undefined", "null"} THEN "" ELSE ToStr(items[i]))
         \o (IF i < Len(items) THEN "," ELSE "")
         \o JoinFrom(items, i + 1)

\* String(val), also the conversion of ${val} in a template literal
ToStr(val) ==
    CASE val.t = "undefined" -> "undefined"
      [] val.t = "null" -> "null"
      [] val.t = "nan" -> "NaN"
      [] val.t = "number" -> ToString(val.n)
      [] val.t = "bigint" -> ToString(val.n)
      [] val.t = "string" -> val.s
      [] val.t = "boolean" -> IF val.b THEN "true" ELSE "false"
      [] val.t = "array" -> JoinFrom(val.items, 1)
      [] val.t = "object" -> "[object Object]"

\* Number(s) for a string s
StringToNumber(s) ==
    IF Len(s) = 0 THEN Num(0)
    ELSE IF AllDigits(s) THEN Num(ParseDigits(s)) ELSE NaN

\* Number(val)
ToNum(val) ==
    CASE val.t = "undefined" -> NaN
      [] val.t = "null" -> Num(0)
      [] val.t = "nan" -> NaN
      [] val.t = "number" -> val
      [] val.t = "bigint" -> Num(val.n)
      [] val.t = "string" -> StringToNumber(val.s)
      [] val.t = "boolean" -> IF val.b THEN Num(1) ELSE Num(0)
      [] val.t = "array" -> StringToNumber(ToStr(val))
      [] val.t = "object" -> NaN

\* Boolean(val)
ToBool(val) ==
    CASE val.t \in {"undefined", "null", "nan"} -> Bool(FALSE)
      [] val.t \in {"number", "bigint"} -> Bool(val.n # 0)
      [] val.t = "string" -> Bool(Len(val.s) > 0)
      [] val.t = "boolean" -> val
      [] val.t \in {"array", "object"} -> Bool(TRUE)

RECURSIVE JSONThrows(_)
\* JSON.stringify(val) throws a TypeError: val holds a BigInt
JSONThrows(val) ==
    CASE val.t = "bigint" -> TRUE
      [] val.t = "array" -> \E i \in DOMAIN val.items : JSONThrows(val.items[i])
      [] val.t = "object" -> \E i \in DOMAIN val.props : JSONThrows(val.props[i].v)
      [] OTHER -> FALSE

RECURSIVE JSONText(_)
RECURSIVE JSONItems(_, _)
RECURSIVE JSONProps(_, _, _)
JSONItems(items, i) ==
    IF i > Len(items) THEN ""
    ELSE (IF items[i].t = "undefined" THEN "null" ELSE JSONText(items[i]))
         \o (IF i < Len(items) THEN "," ELSE "")
         \o JSONItems(items, i + 1)

\* the properties from the i-th on; first: no property has been written yet
JSONProps(props, i, first) ==
    IF i > Len(props) THEN ""
    ELSE IF props[i].v.t = "undefined" THEN JSONProps(props, i + 1, first)
    ELSE (IF first THEN "" ELSE ",")
         \o "\"" \o props[i].k \o "\":" \o JSONText(props[i].v)
         \o JSONProps(props, i + 1, FALSE)

\* the text JSON.stringify(val) returns when it returns one
JSONText(val) ==
    CASE val.t = "null" -> "null"
      [] val.t = "nan" -> "null"
      [] val.t = "number" -> ToString(val.n)
      [] val.t = "string" -> "\"" \o val.s \o "\""
      [] val.t = "boolean" -> IF val.b THEN "true" ELSE "false"
      [] val.t = "array" -> "[" \o JSONItems(val.items, 1) \o "]"
      [] val.t = "object" -> "{" \o JSONProps(val.props, 1, TRUE) \o "}"
      [] OTHER -> "undefined"

(***************************************************************************)
(* Errors and error messages.                                              *)
(***************************************************************************)
\* a thrown Error object
Err(name, message) == [name |-> name, message |-> message]
NoErr == Err("", "")

\* String(e) of an Error object
ErrToStr(e) == IF Len(e.message) = 0 THEN e.name ELSE e.name \o ": " \o e.message

\* The grave accent of the source's messages: no TLA+ string can hold that
\* character, BT stands for it.
BT == "^"

\* A message under construction: thrown when building it threw exc.
Text(s) == [thrown |-> FALSE, exc |-> NoErr, s |-> s]
TextThrew(e) == [thrown |-> TRUE, exc |-> e, s |-> ""]

\* `${JSON.stringify(value)}`
JSONStringify(value) ==
    IF JSONThrows(value)
    THEN TextThrew(Err("TypeError", "Do not know how to serialize a BigInt"))
    ELSE Text(JSONText(value))

invalidType(value, type) ==
    LET j == JSONStringify(value)
    IN IF j.thrown THEN j ELSE Text(BT \o j.s \o BT \o " is not " \o type \o ".")

castingType(value, type) ==
    LET j == JSONStringify(value)
    IN IF j.thrown THEN j ELSE Text("Casting " \o BT \o j.s \o BT \o " to " \o type \o ".")

(***************************************************************************)
(* The state of the factory the client creates, and the flag of the        *)
(* factory behind the guards the module exports itself, the "default"      *)
(* factory: export const {number, ...} = TypeCalm().                       *)
(***************************************************************************)
VARIABLES
    \* TRUE when the factory was created with a customErrorHandler
    customErrorHandler,
    \* the factory's flag: TRUE forces errorHandler to throw
    forceError,
    \* the flag of the default factory
    defaultForceError,
    \* the guard the client built from the factory's guards and combinators
    guard,
    \* the last top-level call: its operation, input and outcome
    call,
    \* history: TRUE when an earlier top-level call on the factory threw or
    \* went to the custom handler
    failed,
    \* a runtime with threads: what each thread's call on the factory has come
    \* to (idle in a runtime without threads)
    threads,
    \* history: what the threads' calls did to one another
    raced

vars ==
    <<customErrorHandler, forceError, defaultForceError, guard, call, failed,
      threads, raced>>

(***************************************************************************)
(* Guards: the closures of the factory, named by how they were built.      *)
(***************************************************************************)
GString == [g |-> "string"]
GNumber == [g |-> "number"]
GBoolean == [g |-> "boolean"]
GArray(inner) == [g |-> "array", inner |-> inner]
\* fields: <<[k |-> key, g |-> guard], ...>> in the order the shape declares them
GObject(fields) == [g |-> "object", fields |-> fields]
Field(k, g) == [k |-> k, g |-> g]
GRecordOf(inner) == [g |-> "recordOf", inner |-> inner]
GNullable(inner) == [g |-> "nullable", inner |-> inner]
GOptional(inner) == [g |-> "optional", inner |-> inner]
GEither(inner1, inner2) == [g |-> "either", inner1 |-> inner1, inner2 |-> inner2]
\* the client's guard (val) => is(val, typeguard)
GIs(typeguard) == [g |-> "is", typeguard |-> typeguard]
\* The guard inner built with the guards and combinators of the other
\* factory than the one that built what it stands in: the default factory's
\* inside a guard of the created factory, and the other way round.
GForeign(inner) == [g |-> "foreign", inner |-> inner]

(***************************************************************************)
(* The state a call runs in and what a call completes with.                *)
(*   factory     the factory whose code runs: "created" by the client, or  *)
(*               the "default" one of the module                           *)
(*   forceError  the flag of that factory                                  *)
(*   other       the flag of the other factory                             *)
(*   handled     the messages customErrorHandler was called with           *)
(*   depth       the number of guard calls on the call stack               *)
(*   trace       what happened, in order: guards entered and left, and     *)
(*               errorHandler's decisions                                  *)
(***************************************************************************)
Run(flag) ==
    [factory |-> "created", forceError |-> flag, other |-> defaultForceError,
     handled |-> <<>>, depth |-> 0, trace |-> <<>>]

Other(factory) == IF factory = "created" THEN "default" ELSE "created"

\* the flags of the two factories
Flags(st) ==
    [created |-> IF st.factory = "created" THEN st.forceError ELSE st.other,
     default |-> IF st.factory = "default" THEN st.forceError ELSE st.other]

\* control passes to a closure of the other factory, with one flag for both
\* factories
SwitchSharingFlag(st) ==
    [st EXCEPT !.factory = Other(@), !.other = st.forceError]

\* control passes to a closure of the other factory: forceError is the flag
\* of that factory's scope
Switch(st) ==
    [st EXCEPT !.factory = Other(@), !.forceError = st.other, !.other = st.forceError]

\* return val
Ret(st, val) == [st |-> st, thrown |-> FALSE, exc |-> NoErr, val |-> val]
\* throw e
Throw(st, e) == [st |-> st, thrown |-> TRUE, exc |-> e, val |-> Undefined]

SetFlag(st, b) == [st EXCEPT !.forceError = b]

\* the guard g is called on val, depth calls being on the stack
Enter(g, val, st) ==
    [e |-> "enter", g |-> g, val |-> val, flag |-> st.forceError, depth |-> st.depth,
     factory |-> st.factory, flags |-> Flags(st)]

\* The call entered at trace[from] in the state st0 ends with the completion
\* c: flag is forceError then, handled the number of handler calls it saw.
Exit(g, val, from, st0, c) ==
    [e |-> "exit", g |-> g, val |-> val, from |-> from, depth |-> st0.depth,
     entry |-> st0.forceError, flag |-> c.st.forceError,
     thrown |-> c.thrown, exc |-> c.exc, ret |-> c.val,
     handled |-> Len(c.st.handled) - Len(st0.handled),
     factory |-> st0.factory, flags |-> Flags(c.st)]

\* errorHandler(str) was called by the guard at depth - 1 and threw or not
Policy(str, st, thrown) ==
    [e |-> "policy", str |-> str, flag |-> st.forceError, depth |-> st.depth,
     thrown |-> thrown, factory |-> st.factory, flags |-> Flags(st)]

Traced(st, ev) == [st EXCEPT !.trace = Append(@, ev)]

(***************************************************************************)
(* Error handling.                                                         *)
(***************************************************************************)
defaultErrorHandler(str, st) == Throw(st, Err("Error", str))

\* the factory whose code runs has a customErrorHandler: the default factory
\* has none
HasCustomHandler(st) == st.factory = "created" /\ customErrorHandler

\* errorHandler that throws only when forced: without a custom handler an
\* unforced failure is dropped
errorHandlerOnlyForced(str, st) ==
    IF st.forceError
    THEN defaultErrorHandler(str, Traced(st, Policy(str, st, TRUE)))
    ELSE IF HasCustomHandler(st)
         THEN Ret([Traced(st, Policy(str, st, FALSE)) EXCEPT !.handled = Append(@, str)],
                  Undefined)
         ELSE Ret(Traced(st, Policy(str, st, FALSE)), Undefined)

\* errorHandler that asks only whether a custom handler is configured
errorHandlerIgnoringFlag(str, st) ==
    IF ~HasCustomHandler(st)
    THEN defaultErrorHandler(str, Traced(st, Policy(str, st, TRUE)))
    ELSE Ret([Traced(st, Policy(str, st, FALSE)) EXCEPT !.handled = Append(@, str)],
             Undefined)

errorHandler(str, st) ==
    IF st.forceError \/ ~HasCustomHandler(st)
    THEN defaultErrorHandler(str, Traced(st, Policy(str, st, TRUE)))
    ELSE Ret([Traced(st, Policy(str, st, FALSE)) EXCEPT !.handled = Append(@, str)],
             Undefined)

\* errorHandler(m) for a message m whose construction may itself have thrown
Report(m, st) == IF m.thrown THEN Throw(st, m.exc) ELSE errorHandler(m.s, st)

\* errorHandler(m1); errorHandler(m2); return fallback
Report2(m1, m2, fallback, st) ==
    LET c1 == Report(m1, st)
    IN IF c1.thrown THEN c1
       ELSE LET c2 == Report(m2, c1.st)
            IN IF c2.thrown THEN c2 ELSE Ret(c2.st, fallback)

(***************************************************************************)
(* The guards.  Each takes the state it is entered in and gives the        *)
(* completion it ends with.                                                *)
(***************************************************************************)
RECURSIVE Invoke(_, _, _)
RECURSIVE MapFrom(_, _, _, _, _)
RECURSIVE objectFrom(_, _, _, _, _)
RECURSIVE recordOfFrom(_, _, _, _, _, _)

string(val, st) ==
    IF TypeOf(val) # "string"
    THEN Report2(invalidType(val, "a " \o BT \o "string" \o BT),
                 castingType(val, "a " \o BT \o "string" \o BT),
                 Str(ToStr(val)), st)
    ELSE Ret(st, val)

\* number without the NaN test
numberAcceptingNaN(val, st) ==
    IF TypeOf(val) # "number"
    THEN Report2(invalidType(val, "a " \o BT \o "number" \o BT),
                 castingType(val, "a " \o BT \o "number" \o BT),
                 ToNum(val), st)
    ELSE Ret(st, val)

\* number with the NaN test turned around: it reports every number that is
\* not NaN
numberReportingNumbers(val, st) ==
    IF TypeOf(val) # "number"
    THEN Report2(invalidType(val, "a " \o BT \o "number" \o BT),
                 castingType(val, "a " \o BT \o "number" \o BT),
                 ToNum(val), st)
    ELSE IF val.t # "nan"
         THEN LET c == errorHandler("\"" \o ToStr(val) \o "\" is a NaN", st)
              IN IF c.thrown THEN c ELSE Ret(c.st, val)
         ELSE Ret(st, val)

number(val, st) ==
    IF TypeOf(val) # "number"
    THEN Report2(invalidType(val, "a " \o BT \o "number" \o BT),
                 castingType(val, "a " \o BT \o "number" \o BT),
                 ToNum(val), st)
    ELSE IF val.t = "nan"
         THEN LET c == errorHandler("\"" \o ToStr(val) \o "\" is a NaN", st)
              IN IF c.thrown THEN c ELSE Ret(c.st, val)
         ELSE Ret(st, val)

boolean(val, st) ==
    IF TypeOf(val) # "boolean"
    THEN Report2(invalidType(val, "a " \o BT \o "boolean" \o BT),
                 castingType(val, "a " \o BT \o "boolean" \o BT),
                 ToBool(val), st)
    ELSE Ret(st, val)

\* a map that validates every element and then throws the first failure
MapFromValidatingAll(inner, items, i, out, st) ==
    IF i > Len(items) THEN Ret(st, Arr(out))
    ELSE LET c == Invoke(inner, items[i], st)
             rest == MapFrom(inner, items, i + 1, Append(out, c.val), c.st)
         IN IF c.thrown THEN Throw(rest.st, c.exc) ELSE rest

\* a map that puts each result in front of the results so far
MapFromPrepending(inner, items, i, out, st) ==
    IF i > Len(items) THEN Ret(st, Arr(out))
    ELSE LET c == Invoke(inner, items[i], st)
         IN IF c.thrown THEN c
            ELSE MapFrom(inner, items, i + 1, <<c.val>> \o out, c.st)

\* items.map(inner) from the i-th element on, out holding the results so far
MapFrom(inner, items, i, out, st) ==
    IF i > Len(items) THEN Ret(st, Arr(out))
    ELSE LET c == Invoke(inner, items[i], st)
         IN IF c.thrown THEN c
            ELSE MapFrom(inner, items, i + 1, Append(out, c.val), c.st)

array(inner, val, st) ==
    IF ~IsArray(val)
    THEN LET c == Report2(invalidType(val, "an " \o BT \o "array" \o BT),
                          Text("Wrapping \"" \o ToStr(val) \o "\" in array"),
                          Undefined, st)
         IN IF c.thrown THEN c ELSE MapFrom(inner, <<val>>, 1, <<>>, c.st)
    ELSE MapFrom(inner, val.items, 1, <<>>, st)

\* the two reports and the fallback of object and recordOf on a non-object
notAnObject(val, st) ==
    LET j == JSONStringify(val)
    IN Report2(invalidType(val, "an " \o BT \o "object" \o BT),
               IF j.thrown THEN j
               ELSE Text("Cannot cast " \o BT \o j.s \o BT
                         \o " to object. Fingers crossed it's not important."),
               val, st)

\* the loop of object with String(e) for the message of the caught error
objectFromStringOfError(fs, i, val, out, st) ==
    IF i > Len(fs) THEN Ret(st, out)
    ELSE LET k == fs[i].k
             skipCleanup == st.forceError
             cleanup(s) == IF ~skipCleanup THEN SetFlag(s, FALSE) ELSE s
             c == Invoke(fs[i].g, GetProp(val, k), SetFlag(st, TRUE))
         IN IF ~c.thrown
            THEN objectFrom(fs, i + 1, val, SetProp(out, k, c.val), cleanup(c.st))
            ELSE LET h == errorHandler("Object '" \o k \o "' property error: "
                                       \o ErrToStr(c.exc), cleanup(c.st))
                 IN IF h.thrown THEN Throw(cleanup(h.st), h.exc)
                    ELSE objectFrom(fs, i + 1, val, SetProp(out, k, GetProp(val, k)),
                                    cleanup(h.st))

\* the loop of object that clears the flag in finally only, after the catch
\* block has reported
objectFromLateCleanup(fs, i, val, out, st) ==
    IF i > Len(fs) THEN Ret(st, out)
    ELSE LET k == fs[i].k
             skipCleanup == st.forceError
             cleanup(s) == IF ~skipCleanup THEN SetFlag(s, FALSE) ELSE s
             c == Invoke(fs[i].g, GetProp(val, k), SetFlag(st, TRUE))
         IN IF ~c.thrown
            THEN objectFrom(fs, i + 1, val, SetProp(out, k, c.val), cleanup(c.st))
            ELSE LET h == errorHandler("Object '" \o k \o "' property error: "
                                       \o c.exc.message, c.st)
                 IN IF h.thrown THEN Throw(cleanup(h.st), h.exc)
                    ELSE objectFrom(fs, i + 1, val, SetProp(out, k, GetProp(val, k)),
                                    cleanup(h.st))

\* the loop of object without forceError = true: the field guards run with
\* the flag as object found it
objectFromWithoutForcing(fs, i, val, out, st) ==
    IF i > Len(fs) THEN Ret(st, out)
    ELSE LET k == fs[i].k
             skipCleanup == st.forceError
             cleanup(s) == IF ~skipCleanup THEN SetFlag(s, FALSE) ELSE s
             c == Invoke(fs[i].g, GetProp(val, k), st)
         IN IF ~c.thrown
            THEN objectFrom(fs, i + 1, val, SetProp(out, k, c.val), cleanup(c.st))
            ELSE LET h == errorHandler("Object '" \o k \o "' property error: "
                                       \o c.exc.message, cleanup(c.st))
                 IN IF h.thrown THEN Throw(cleanup(h.st), h.exc)
                    ELSE objectFrom(fs, i + 1, val, SetProp(out, k, GetProp(val, k)),
                                    cleanup(h.st))

\* the loop of object without out[k] = val[k] in the catch block: a field
\* that failed is left out of the result
objectFromDroppingFailed(fs, i, val, out, st) ==
    IF i > Len(fs) THEN Ret(st, out)
    ELSE LET k == fs[i].k
             skipCleanup == st.forceError
             cleanup(s) == IF ~skipCleanup THEN SetFlag(s, FALSE) ELSE s
             c == Invoke(fs[i].g, GetProp(val, k), SetFlag(st, TRUE))
         IN IF ~c.thrown
            THEN objectFrom(fs, i + 1, val, SetProp(out, k, c.val), cleanup(c.st))
            ELSE LET h == errorHandler("Object '" \o k \o "' property error: "
                                       \o c.exc.message, cleanup(c.st))
                 IN IF h.thrown THEN Throw(cleanup(h.st), h.exc)
                    ELSE objectFrom(fs, i + 1, val, out, cleanup(h.st))

\* the loop of object over the fields fs (in for-in order) from the i-th on
objectFrom(fs, i, val, out, st) ==
    IF i > Len(fs) THEN Ret(st, out)
    ELSE LET k == fs[i].k
             skipCleanup == st.forceError
             cleanup(s) == IF ~skipCleanup THEN SetFlag(s, FALSE) ELSE s
             c == Invoke(fs[i].g, GetProp(val, k), SetFlag(st, TRUE))
         IN IF ~c.thrown
            THEN objectFrom(fs, i + 1, val, SetProp(out, k, c.val), cleanup(c.st))
            ELSE LET h == errorHandler("Object '" \o k \o "' property error: "
                                       \o c.exc.message, cleanup(c.st))
                 IN IF h.thrown THEN Throw(cleanup(h.st), h.exc)
                    ELSE objectFrom(fs, i + 1, val, SetProp(out, k, GetProp(val, k)),
                                    cleanup(h.st))

object(inner, val, st) ==
    IF val.t = "null" \/ TypeOf(val) # "object"
    THEN notAnObject(val, st)
    ELSE objectFrom(ForInOrder(inner), 1, val, Obj(<<>>), st)

\* the loop of recordOf with the try and catch of object: the failure of a
\* value is thrown again under the name of its key
recordOfFromAnnotating(inner, ks, i, val, out, st) ==
    IF i > Len(ks) THEN Ret(st, out)
    ELSE LET c == Invoke(inner, GetProp(val, ks[i]), st)
         IN IF c.thrown
            THEN Throw(c.st, Err("Error", "Object '" \o ks[i] \o "' property error: "
                                           \o c.exc.message))
            ELSE recordOfFrom(inner, ks, i + 1, val, SetProp(out, ks[i], c.val), c.st)

\* the loop of recordOf over the keys ks from the i-th on
recordOfFrom(inner, ks, i, val, out, st) ==
    IF i > Len(ks) THEN Ret(st, out)
    ELSE LET c == Invoke(inner, GetProp(val, ks[i]), st)
         IN IF c.thrown THEN c
            ELSE recordOfFrom(inner, ks, i + 1, val, SetProp(out, ks[i], c.val), c.st)

recordOf(inner, val, st) ==
    IF val.t = "null" \/ TypeOf(val) # "object"
    THEN notAnObject(val, st)
    ELSE recordOfFrom(inner, ForInKeys(val), 1, val, Obj(<<>>), st)

nullable(inner, val, st) ==
    IF val.t = "null" THEN Ret(st, val) ELSE Invoke(inner, val, st)

optional(inner, val, st) ==
    IF TypeOf(val) = "undefined" THEN Ret(st, val) ELSE Invoke(inner, val, st)

\* errors.forEach(e => errorHandler(String(e))) from the i-th error on
RECURSIVE forEachError(_, _, _)
forEachError(errors, i, st) ==
    IF i > Len(errors) THEN Ret(st, Undefined)
    ELSE LET c == errorHandler(ErrToStr(errors[i]), st)
         IN IF c.thrown THEN c ELSE forEachError(errors, i + 1, c.st)

\* either that returns what the accepting branch returned
eitherReturningBranch(inner1, inner2, value, st) ==
    LET skipCleanup == st.forceError
        c1 == Invoke(inner1, value, SetFlag(st, TRUE))
        c2 == Invoke(inner2, value, c1.st)
        ok == ~c1.thrown \/ ~c2.thrown
        errors == IF ~c1.thrown THEN <<>>
                  ELSE IF ~c2.thrown THEN <<c1.exc>> ELSE <<c1.exc, c2.exc>>
        tried == IF ~c1.thrown THEN c1.st ELSE c2.st
        cleaned == IF ~skipCleanup THEN SetFlag(tried, FALSE) ELSE tried
        f == IF ~ok THEN forEachError(errors, 1, cleaned) ELSE Ret(cleaned, Undefined)
    IN IF f.thrown THEN f
       ELSE Ret(f.st, IF ~c1.thrown THEN c1.val ELSE IF ~c2.thrown THEN c2.val ELSE value)

\* either that gives up when its first guard throws
eitherWithoutSecond(inner1, inner2, value, st) ==
    LET skipCleanup == st.forceError
        c1 == Invoke(inner1, value, SetFlag(st, TRUE))
        errors == IF ~c1.thrown THEN <<>> ELSE <<c1.exc>>
        cleaned == IF ~skipCleanup THEN SetFlag(c1.st, FALSE) ELSE c1.st
        f == IF c1.thrown THEN forEachError(errors, 1, cleaned) ELSE Ret(cleaned, Undefined)
    IN IF f.thrown THEN f ELSE Ret(f.st, value)

\* either without the finally block: the flag stays true when it ends
eitherNeverCleanup(inner1, inner2, value, st) ==
    LET c1 == Invoke(inner1, value, SetFlag(st, TRUE))
        c2 == Invoke(inner2, value, c1.st)
        ok == ~c1.thrown \/ ~c2.thrown
        errors == IF ~c1.thrown THEN <<>>
                  ELSE IF ~c2.thrown THEN <<c1.exc>> ELSE <<c1.exc, c2.exc>>
        tried == IF ~c1.thrown THEN c1.st ELSE c2.st
        f == IF ~ok THEN forEachError(errors, 1, tried) ELSE Ret(tried, Undefined)
    IN IF f.thrown THEN f ELSE Ret(f.st, value)

either(inner1, inner2, value, st) ==
    LET skipCleanup == st.forceError
        c1 == Invoke(inner1, value, SetFlag(st, TRUE))
        c2 == Invoke(inner2, value, c1.st)
        ok == ~c1.thrown \/ ~c2.thrown
        errors == IF ~c1.thrown THEN <<>>
                  ELSE IF ~c2.thrown THEN <<c1.exc>> ELSE <<c1.exc, c2.exc>>
        tried == IF ~c1.thrown THEN c1.st ELSE c2.st
        \* finally
        cleaned == IF ~skipCleanup THEN SetFlag(tried, FALSE) ELSE tried
        f == IF ~ok THEN forEachError(errors, 1, cleaned) ELSE Ret(cleaned, Undefined)
    IN IF f.thrown THEN f ELSE Ret(f.st, value)

\* is() that calls the guard under the flag it was entered with
isWithoutForcing(value, typeguard, st) ==
    LET c == Invoke(typeguard, value, st)
    IN Ret(c.st, Bool(~c.thrown))

\* is() without skipCleanup: it always clears the flag when it ends
isAlwaysCleanup(value, typeguard, st) ==
    LET c == Invoke(typeguard, value, SetFlag(st, TRUE))
    IN Ret(SetFlag(c.st, FALSE), Bool(~c.thrown))

is(value, typeguard, st) ==
    LET skipCleanup == st.forceError
        c == Invoke(typeguard, value, SetFlag(st, TRUE))
        cleaned == IF ~skipCleanup THEN SetFlag(c.st, FALSE) ELSE c.st
    IN Ret(cleaned, Bool(~c.thrown))

\* the call of a guard of the other factory
foreign(inner, val, st) ==
    LET c == Invoke(inner, val, Switch(st))
    IN [c EXCEPT !.st = Switch(@)]

\* the call g(val) of any guard, traced
Invoke(g, val, st) ==
    LET st1 == [Traced(st, Enter(g, val, st)) EXCEPT !.depth = @ + 1]
        c == CASE g.g = "string" -> string(val, st1)
               [] g.g = "number" -> number(val, st1)
               [] g.g = "boolean" -> boolean(val, st1)
               [] g.g = "array" -> array(g.inner, val, st1)
               [] g.g = "object" -> object(g.fields, val, st1)
               [] g.g = "recordOf" -> recordOf(g.inner, val, st1)
               [] g.g = "nullable" -> nullable(g.inner, val, st1)
               [] g.g = "optional" -> optional(g.inner, val, st1)
               [] g.g = "either" -> either(g.inner1, g.inner2, val, st1)
               [] g.g = "is" -> is(val, g.typeguard, st1)
               [] g.g = "foreign" -> foreign(g.inner, val, st1)
    IN [c EXCEPT !.st = [Traced(@, Exit(g, val, Len(st.trace) + 1, st, c))
                            EXCEPT !.depth = st.depth]]

(***************************************************************************)
(* The inputs and the guards of the checked universe.                      *)
(***************************************************************************)
\* property keys: two names and an array index
Keys == {"a", "b", "1"}

\* sequences of at most n distinct keys
KeySeqs(n) ==
    {ks \in UNION {[1..m -> Keys] : m \in 0..n} :
        \A i, j \in DOMAIN ks : i # j => ks[i] # ks[j]}

Leaves ==
    {Undefined, Null, NaN, Num(4), Str("4"), Str("str"), Bool(TRUE), Bool(FALSE), BigInt(10)}

\* what arrays and objects hold
Elems == {Num(4), Str("4")}

Arrays == {Arr(items) : items \in UNION {[1..m -> Elems] : m \in 0..MaxLen}}

\* the objects with the keys ks created in that order and values of E
ObjectsOver(ks, E) ==
    {Obj(ForInOrder([i \in DOMAIN ks |-> Prop(ks[i], f[i])])) : f \in [DOMAIN ks -> E]}

FlatObjects == UNION {ObjectsOver(ks, Elems) : ks \in KeySeqs(MaxFields)}

\* an array or an object inside an object or an array
Nested ==
    LET in == Arrays \cup {o \in FlatObjects : Len(o.props) <= 1}
    IN {Obj(<<Prop("a", x)>>) : x \in in}
       \cup {Obj(<<Prop("a", x), Prop("b", Str("4"))>>) : x \in in}
       \cup {Arr(<<x>>) : x \in in}

Values == Leaves \cup Arrays \cup FlatObjects \cup Nested

Prims == {GString, GNumber, GBoolean}

\* the object guards over shapes of the keys ks, declared in that order, with
\* field guards of F
ShapesOver(ks, F) ==
    {GObject([i \in DOMAIN ks |-> Field(ks[i], f[i])]) : f \in [DOMAIN ks -> F]}

Unary(F) ==
    UNION {{GArray(x), GRecordOf(x), GNullable(x), GOptional(x), GIs(x)} : x \in F}

\* guards built by one combinator over primitive guards
Level1 ==
    Unary(Prims)
    \cup {GEither(x, y) : x \in Prims, y \in Prims}
    \cup UNION {ShapesOver(ks, {GNumber, GString}) : ks \in KeySeqs(MaxFields)}

\* the guards that are nested in others
Inner ==
    {GArray(GNumber), GRecordOf(GNumber), GNullable(GNumber), GOptional(GString),
     GIs(GNumber), GEither(GNumber, GString), GEither(GBoolean, GString),
     GObject(<<Field("a", GNumber)>>),
     GObject(<<Field("a", GNumber), Field("b", GString)>>)}

Level2 ==
    Unary(Inner)
    \cup {GEither(x, y) : x \in Inner, y \in Inner \cup Prims}
    \cup {GEither(x, y) : x \in Prims, y \in Inner}
    \cup UNION {ShapesOver(ks, Inner) : ks \in KeySeqs(1)}
    \cup {GObject(<<Field("a", x), Field("b", y)>>) : x \in Inner, y \in {GNumber, GString}}
    \cup {GObject(<<Field("b", y), Field("a", x)>>) : x \in Inner, y \in {GNumber, GString}}

\* the guards of the repository's tests, and guards nested three deep
Level3 ==
    {GEither(GNumber, GEither(GArray(GNumber), GEither(GBoolean, GString))),
     GObject(<<Field("a", GObject(<<Field("a", GNumber), Field("b", GString)>>)),
               Field("b", GString)>>)}
    \cup {GEither(GNumber, GObject(<<Field("a", x)>>)) : x \in Inner}
    \cup {GObject(<<Field("a", GEither(x, GString))>>) : x \in Inner}
    \cup {GIs(GObject(<<Field("a", x)>>)) : x \in Inner}
    \cup {GArray(GObject(<<Field("a", x)>>)) : x \in Inner}

Guards == Prims \cup Level1 \cup Level2 \cup Level3

\* the guards of F built with either factory
Both(F) == F \cup {GForeign(x) : x \in F}

\* guards that one factory's combinator builds over guards of both factories
Mixed1 ==
    Unary(Both(Prims))
    \cup {GEither(x, y) : x \in Both(Prims), y \in Both(Prims)}
    \cup UNION {ShapesOver(ks, Both({GNumber})) : ks \in KeySeqs(MaxFields)}

\* guards that change factory twice on the way down
Mixed2 ==
    {GEither(GForeign(GEither(GForeign(GNumber), GString)), GBoolean),
     GIs(GForeign(GObject(<<Field("a", GForeign(GNumber))>>))),
     GObject(<<Field("a", GForeign(GObject(<<Field("a", GForeign(GNumber))>>)))>>),
     GArray(GForeign(GEither(GForeign(GNumber), GForeign(GString))))}

\* the guards of a client of the created factory and of the default factory
MixedGuards == Both(Prims) \cup Both(Mixed1) \cup Both(Mixed2)

(***************************************************************************)
(* The factory and its client.  Calls are synchronous: the client builds a *)
(* guard, makes one top-level call that runs to completion, and takes its  *)
(* outcome before it goes on.  forceError lives on from call to call.      *)
(***************************************************************************)
NoCall == [op |-> "none"]

\* the record of the call op(input) that ran from the flag entry to completion c
Called(op, input, entry, c) ==
    [op |-> op, input |-> input, entry |-> entry,
     thrown |-> c.thrown, exc |-> c.exc, val |-> c.val,
     handled |-> c.st.handled, trace |-> c.st.trace]

\* the threads of control of a runtime that has threads
Threads == {"t1", "t2"}

\* The call of a thread.
\*   pc           where the call is: "idle" before it, then "read", "set",
\*                "report1", "report2", "finally", "forEach", and "done"
\*   op, val      the call: is(val, number), either(number, string)(val) or
\*                number(val), named "is", "either" and "guard"
\*   skipCleanup  the local of is and of either
\*   inner        the guard that is or either is in: 1 number, 2 string
\*   ok, errors   either's locals (errors: how many it caught)
\*   next         the error errors.forEach is at
\*   handled      the call went to the custom handler
\*   result       "none", then "returned" or "raised", and for is "true" or
\*                "false"
\*   solo, entry  history: no other thread's call ran during this call; the
\*                flag when the call began
IdleThread ==
    [pc |-> "idle", op |-> "none", val |-> Undefined, skipCleanup |-> FALSE,
     inner |-> 1, ok |-> FALSE, errors |-> 0, next |-> 1, handled |-> FALSE,
     result |-> "none", solo |-> TRUE, entry |-> FALSE]

\* history
\*   overlapped     a call began while another was under way
\*   clearedInside  a call cleared the flag while another call, which had set
\*                  it, was inside its inner guard
NoRace == [overlapped |-> FALSE, clearedInside |-> FALSE]

\* TypeCalm({customErrorHandler}) or TypeCalm()
Init ==
    /\ customErrorHandler \in BOOLEAN
    /\ forceError = FALSE
    /\ defaultForceError = FALSE
    /\ guard = GNumber
    /\ call = NoCall
    /\ failed = FALSE
    /\ threads = [t \in Threads |-> IdleThread]
    /\ raced = NoRace

\* the client builds the guard g
Define(g) ==
    /\ call.op = "none"
    /\ guard' = g
    /\ UNCHANGED <<customErrorHandler, forceError, defaultForceError, call, failed,
                   threads, raced>>

\* the top-level call guard(val)
CallGuard(val) ==
    /\ call.op = "none"
    /\ LET c == Invoke(guard, val, Run(forceError))
       IN /\ forceError' = c.st.forceError
          /\ defaultForceError' = c.st.other
          /\ call' = Called("guard", val, forceError, c)
    /\ UNCHANGED <<customErrorHandler, guard, failed, threads, raced>>

\* the top-level call is(val, guard)
CallIs(val) ==
    /\ call.op = "none"
    /\ LET c == Invoke(GIs(guard), val, Run(forceError))
       IN /\ forceError' = c.st.forceError
          /\ defaultForceError' = c.st.other
          /\ call' = Called("is", val, forceError, c)
    /\ UNCHANGED <<customErrorHandler, guard, failed, threads, raced>>

\* the client is done with the outcome of the call
Return ==
    /\ call.op # "none"
    /\ call' = NoCall
    /\ failed' = (failed \/ call.thrown \/ call.handled # <<>>)
    /\ UNCHANGED <<customErrorHandler, forceError, defaultForceError, guard,
                   threads, raced>>

Next ==
    \/ \E g \in Guards : Define(g)
    \/ \E val \in Values : CallGuard(val)
    \/ \E val \in Values : CallIs(val)
    \/ Return

Spec == Init /\ [][Next]_vars

\* the client that uses the guards of the created factory and those of the
\* default factory, also inside one another
NextTwoFactories ==
    \/ \E g \in MixedGuards : Define(g)
    \/ \E val \in Values : CallGuard(val)
    \/ \E val \in Values : CallIs(val)
    \/ Return

SpecTwoFactories == Init /\ [][NextTwoFactories]_vars

(***************************************************************************)
(* The factory in a runtime with threads: each thread makes calls on the   *)
(* one factory, and the calls interleave between any two accesses to       *)
(* forceError.  One step is one read or write of forceError with the local *)
(* computation that follows it.                                            *)
(***************************************************************************)
ThreadOps == {"is", "either", "guard"}
ThreadValues == {Num(4), Str("4"), Bool(TRUE)}

\* the call of the thread is under way
Active(th) == th.pc \notin {"idle", "done"}

\* the thread is in an inner guard of is or either, after forceError = true
InsideSuppressed(th) == th.op \in {"is", "either"} /\ th.pc \in {"report1", "report2"}

InnerGuard(th) == IF th.inner = 1 THEN GNumber ELSE GString

\* the inner guard returned
InnerReturned(th) ==
    IF th.op = "guard"
    THEN [th EXCEPT !.pc = "done", !.result = "returned"]
    ELSE [th EXCEPT !.pc = "finally", !.ok = TRUE]

\* the call of the n-th guard begins: typeof val is tested
EnterInner(th, n) ==
    LET th1 == [th EXCEPT !.inner = n]
    IN IF TypeOf(th.val) # InnerGuard(th1).g
       THEN [th1 EXCEPT !.pc = "report1"]
       ELSE InnerReturned(th1)

\* the inner guard threw: the call throws, is catches, either catches and
\* tries its second guard
InnerThrew(th) ==
    CASE th.op = "guard" -> [th EXCEPT !.pc = "done", !.result = "raised"]
      [] th.op = "is" -> [th EXCEPT !.pc = "finally", !.ok = FALSE]
      [] th.op = "either" ->
           IF th.inner = 1
           THEN EnterInner([th EXCEPT !.errors = @ + 1], 2)
           ELSE [th EXCEPT !.pc = "finally", !.errors = @ + 1]

Unshared == <<customErrorHandler, defaultForceError, guard, call, failed>>

\* the thread t calls op on val
Begin(t, op, val) ==
    /\ threads[t].pc = "idle"
    /\ LET others == \E u \in Threads : u # t /\ Active(threads[u])
           th == [IdleThread EXCEPT !.op = op, !.val = val,
                                    !.solo = ~others, !.entry = forceError]
           begun == IF op = "guard" THEN EnterInner(th, 1)
                    ELSE [th EXCEPT !.pc = "read"]
       IN /\ threads' = [u \in Threads |->
                            IF u = t THEN begun
                            ELSE IF Active(threads[u])
                                 THEN [threads[u] EXCEPT !.solo = FALSE]
                                 ELSE threads[u]]
          /\ raced' = [raced EXCEPT !.overlapped = @ \/ others]
    /\ UNCHANGED <<forceError, Unshared>>

\* let skipCleanup = forceError
Read(t) ==
    /\ threads[t].pc = "read"
    /\ threads' = [threads EXCEPT ![t].skipCleanup = forceError, ![t].pc = "set"]
    /\ UNCHANGED <<forceError, raced, Unshared>>

\* forceError = true, and the call of the first guard
Set(t) ==
    /\ threads[t].pc = "set"
    /\ forceError' = TRUE
    /\ threads' = [threads EXCEPT ![t] = EnterInner(@, 1)]
    /\ UNCHANGED <<raced, Unshared>>

\* errorHandler(invalidType(val, ...)) in string or number
ReportKind(t) ==
    /\ threads[t].pc = "report1"
    /\ LET th == threads[t]
           kind == "a " \o BT \o InnerGuard(th).g \o BT
           c == Report(invalidType(th.val, kind), Run(forceError))
       IN threads' = [threads EXCEPT ![t] =
                         IF c.thrown THEN InnerThrew(th)
                         ELSE [th EXCEPT !.pc = "report2", !.handled = TRUE]]
    /\ UNCHANGED <<forceError, raced, Unshared>>

\* errorHandler(castingType(val, ...)) and the return of the cast value
ReportCast(t) ==
    /\ threads[t].pc = "report2"
    /\ LET th == threads[t]
           kind == "a " \o BT \o InnerGuard(th).g \o BT
           c == Report(castingType(th.val, kind), Run(forceError))
       IN threads' = [threads EXCEPT ![t] =
                         IF c.thrown THEN InnerThrew(th) ELSE InnerReturned(th)]
    /\ UNCHANGED <<forceError, raced, Unshared>>

\* a finally block that leaves the flag as it is
FinallyWithoutCleanup(t) ==
    /\ threads[t].pc = "finally"
    /\ LET th == threads[t]
       IN threads' = [threads EXCEPT ![t] =
                         CASE th.op = "is" ->
                                [th EXCEPT !.pc = "done",
                                           !.result = IF th.ok THEN "true" ELSE "false"]
                           [] th.op = "either" /\ th.ok ->
                                [th EXCEPT !.pc = "done", !.result = "returned"]
                           [] th.op = "either" /\ ~th.ok ->
                                [th EXCEPT !.pc = "forEach", !.next = 1]]
    /\ UNCHANGED <<forceError, raced, Unshared>>

\* finally: if (!skipCleanup) forceError = false; is returns, either
\* returns or goes on to report its errors
Finally(t) ==
    /\ threads[t].pc = "finally"
    /\ LET th == threads[t]
           clears == ~th.skipCleanup
       IN /\ forceError' = IF clears THEN FALSE ELSE forceError
          /\ raced' = [raced EXCEPT !.clearedInside =
                           @ \/ (clears /\ \E u \in Threads :
                                                u # t /\ InsideSuppressed(threads[u]))]
          /\ threads' = [threads EXCEPT ![t] =
                            CASE th.op = "is" ->
                                   [th EXCEPT !.pc = "done",
                                              !.result = IF th.ok THEN "true" ELSE "false"]
                              [] th.op = "either" /\ th.ok ->
                                   [th EXCEPT !.pc = "done", !.result = "returned"]
                              [] th.op = "either" /\ ~th.ok ->
                                   [th EXCEPT !.pc = "forEach", !.next = 1]]
    /\ UNCHANGED Unshared

\* errors.forEach(e => errorHandler(String(e))): one error, and the return
\* of either after the last
ForEach(t) ==
    /\ threads[t].pc = "forEach"
    /\ LET th == threads[t]
           c == errorHandler("Error", Run(forceError))
       IN threads' = [threads EXCEPT ![t] =
                         IF c.thrown THEN [th EXCEPT !.pc = "done", !.result = "raised"]
                         ELSE IF th.next = th.errors
                              THEN [th EXCEPT !.pc = "done", !.result = "returned",
                                              !.handled = TRUE]
                              ELSE [th EXCEPT !.next = @ + 1, !.handled = TRUE]]
    /\ UNCHANGED <<forceError, raced, Unshared>>

\* the thread takes the outcome of its call
End(t) ==
    /\ threads[t].pc = "done"
    /\ threads' = [threads EXCEPT ![t] = IdleThread]
    /\ UNCHANGED <<forceError, raced, Unshared>>

NextInterleaved ==
    \/ \E t \in Threads, op \in ThreadOps, val \in ThreadValues : Begin(t, op, val)
    \/ \E t \in Threads : Read(t)
    \/ \E t \in Threads : Set(t)
    \/ \E t \in Threads : ReportKind(t)
    \/ \E t \in Threads : ReportCast(t)
    \/ \E t \in Threads : Finally(t)
    \/ \E t \in Threads : ForEach(t)
    \/ \E t \in Threads : End(t)

SpecInterleaved == Init /\ [][NextInterleaved]_vars

(***************************************************************************)
(* Reading the trace of the last call.                                     *)
(***************************************************************************)
Trace == IF call.op = "none" THEN <<>> ELSE call.trace

\* the positions of the events of one kind
Enters == {i \in DOMAIN Trace : Trace[i].e = "enter"}
Exits == {i \in DOMAIN Trace : Trace[i].e = "exit"}
Policies == {i \in DOMAIN Trace : Trace[i].e = "policy"}

\* the exit of the call entered at i
ExitOf(i) == CHOOSE j \in Exits : Trace[j].from = i

\* the calls the call entered at i made itself, in order
ChildrenOf(i) ==
    SortedSeq({p \in Enters : p > i /\ p < ExitOf(i) /\ Trace[p].depth = Trace[i].depth + 1})

\* the errorHandler calls the call entered at i made itself, in order
ReportsOf(i) ==
    SortedSeq({p \in Policies : p > i /\ p < ExitOf(i) /\ Trace[p].depth = Trace[i].depth + 1})

(***************************************************************************)
(* C1: every guard invocation, at any nesting depth, leaves forceError as  *)
(* it found it, whether it returns or throws: a top-level call ends with   *)
(* the flag it started with (false), and a combinator or is() entered      *)
(* with the flag true leaves it true.                                      *)
(***************************************************************************)
C1_FlagRestored ==
    /\ call.op # "none" => forceError = call.entry
    /\ call.op = "none" => forceError = FALSE
    /\ \A j \in Exits : Trace[j].flag = Trace[j].entry

\* an either, an object and an is() each entered with the flag true, the
\* either throwing, inside a top-level call that throws
C1_Witness ==
    /\ call.op = "guard" /\ call.thrown /\ ~call.entry
    /\ \E j \in Exits : Trace[j].g.g = "either" /\ Trace[j].entry /\ Trace[j].thrown
    /\ \E j \in Exits : Trace[j].g.g \in {"object", "is"} /\ Trace[j].entry

(***************************************************************************)
(* C2: while forceError is true every errorHandler call throws, with or    *)
(* without a custom handler, so the custom handler is never called while   *)
(* the flag is true.                                                       *)
(***************************************************************************)
C2_SuppressedFailureThrows ==
    \A p \in Policies : Trace[p].flag => Trace[p].thrown

\* a factory with a custom handler, a failure under suppression that threw
\* and a later one outside suppression that went to the handler
C2_Witness ==
    /\ customErrorHandler
    /\ \E p \in Policies : Trace[p].flag /\ Trace[p].thrown
    /\ \E p \in Policies : ~Trace[p].flag /\ ~Trace[p].thrown

(***************************************************************************)
(* What the claims speak of.                                               *)
(***************************************************************************)
RECURSIVE IsCore(_)
\* a core guard: a primitive guard or a composition by the six combinators
IsCore(g) ==
    CASE g.g \in {"string", "number", "boolean"} -> TRUE
      [] g.g \in {"array", "recordOf", "nullable", "optional"} -> IsCore(g.inner)
      [] g.g = "either" -> IsCore(g.inner1) /\ IsCore(g.inner2)
      [] g.g = "object" -> \A i \in DOMAIN g.fields : IsCore(g.fields[i].g)
      [] OTHER -> FALSE

\* g(val) throws when it runs with the flag forced to true
Rejects(g, val) == Invoke(g, val, Run(TRUE)).thrown

\* the last call was the top-level call guard(input), entered with the flag false
TopLevelGuardCall == call.op = "guard" /\ ~call.entry

\* val is a non-null structured value
Structured(val) == val.t # "null" /\ TypeOf(val) = "object"

\* sub occurs in s
Contains(s, sub) ==
    \E k \in 0..(Len(s) - Len(sub)) : SubSeq(s, k + 1, k + Len(sub)) = sub

(***************************************************************************)
(* C3: with a custom handler, a top-level call of a core guard never       *)
(* throws, whatever the input.                                             *)
(***************************************************************************)
C3_CustomNeverRaises ==
    customErrorHandler /\ TopLevelGuardCall /\ IsCore(guard) => ~call.thrown

(***************************************************************************)
(* C4: without a custom handler, a top-level call of a guard that rejects  *)
(* its input throws an error with a message; number, string and boolean    *)
(* throw on every value of another kind and return nothing.                *)
(***************************************************************************)
C4_DefaultRaises ==
    ~customErrorHandler /\ TopLevelGuardCall =>
        /\ Rejects(guard, call.input) =>
               call.thrown /\ Len(call.exc.message) > 0
        /\ guard \in Prims /\ TypeOf(call.input) # guard.g =>
               call.thrown /\ Len(call.exc.message) > 0 /\ call.val = Undefined

\* number called on an array in a factory without a handler
C4_Witness ==
    /\ ~customErrorHandler /\ TopLevelGuardCall
    /\ guard = GNumber /\ IsArray(call.input) /\ call.thrown

(***************************************************************************)
(* C5: is(v, g) returns true exactly when g(v) does not throw with the     *)
(* flag forced to true; it never throws and the custom handler is not      *)
(* called while it runs, in both modes and for either value of the flag on *)
(* entry.                                                                  *)
(***************************************************************************)
C5_IsDecides ==
    \A j \in Exits :
        Trace[j].g.g = "is" =>
            /\ ~Trace[j].thrown
            /\ Trace[j].handled = 0
            /\ Trace[j].ret = Bool(~Rejects(Trace[j].g.typeguard, Trace[j].val))

\* with a custom handler: a top-level is() that answers false, and an is()
\* entered with the flag true that answers false
C5_Witness ==
    /\ customErrorHandler
    /\ call.op = "is" /\ ~call.entry /\ call.val = Bool(FALSE)
    /\ \E j \in Exits : Trace[j].g.g = "is" /\ Trace[j].entry /\ Trace[j].ret = Bool(FALSE)

(***************************************************************************)
(* C6: when both branches of either(a, b) fail, errorHandler is called     *)
(* once, with one message that contains the message of a's failure and    *)
(* the message of b's failure.                                             *)
(***************************************************************************)
C6_EitherAggregates ==
    \A i \in Enters :
        Trace[i].g.g = "either" =>
            LET ch == ChildrenOf(i)
                rs == ReportsOf(i)
            IN Len(ch) = 2 /\ Trace[ExitOf(ch[2])].thrown =>
                   /\ Len(rs) = 1
                   /\ Contains(Trace[rs[1]].str, Trace[ExitOf(ch[1])].exc.message)
                   /\ Contains(Trace[rs[1]].str, Trace[ExitOf(ch[2])].exc.message)

(***************************************************************************)
(* C7: either(a, b)(v) calls a first, with the flag true, and b, with the  *)
(* flag true, only if a threw.  If a or b accepts v the call returns v     *)
(* itself and errorHandler is not called by it: nothing is thrown and the  *)
(* custom handler is not called.                                           *)
(***************************************************************************)
C7_EitherTriesInOrder ==
    \A i \in Enters :
        Trace[i].g.g = "either" =>
            LET g == Trace[i].g
                ch == ChildrenOf(i)
                x == Trace[ExitOf(i)]
                first == ch[1]
                second == ch[2]
            IN /\ Len(ch) >= 1
               /\ Trace[first].g = g.inner1
               /\ Trace[first].val = Trace[i].val
               /\ Trace[first].flag
               /\ Len(ch) = IF Trace[ExitOf(first)].thrown THEN 2 ELSE 1
               /\ Len(ch) = 2 =>
                      /\ Trace[second].g = g.inner2
                      /\ Trace[second].val = Trace[i].val
                      /\ Trace[second].flag
               /\ (\E k \in DOMAIN ch : ~Trace[ExitOf(ch[k])].thrown) =>
                      /\ ~x.thrown
                      /\ x.ret = Trace[i].val
                      /\ ReportsOf(i) = <<>>
                      /\ x.handled = 0

\* with a custom handler, a top-level either whose first branch threw and
\* whose second branch accepted and returned something else than the input
C7_Witness ==
    /\ customErrorHandler /\ TopLevelGuardCall /\ guard.g = "either"
    /\ LET ch == ChildrenOf(1)
       IN /\ Len(ch) = 2
          /\ ~Trace[ExitOf(ch[2])].thrown
          /\ Trace[ExitOf(ch[2])].ret # call.input
          /\ call.val = call.input

(***************************************************************************)
(* The fields of a shape that fail on an input.                            *)
(***************************************************************************)
\* the field f of a shape fails on val: its guard throws on val[f.k] under
\* suppression
FieldFails(f, val) == Rejects(f.g, GetProp(val, f.k))

\* the positions in the sequence fs of the fields that fail on val
Failing(fs, val) == {i \in DOMAIN fs : FieldFails(fs[i], val)}

\* the first field of fs that fails on val
FirstFailing(fs, val) == fs[CHOOSE i \in Failing(fs, val) : \A j \in Failing(fs, val) : i <= j]

\* the message object raises for the failing field f
FieldMessage(f, val) ==
    "Object '" \o f.k \o "' property error: "
        \o Invoke(f.g, GetProp(val, f.k), Run(TRUE)).exc.message

\* the last call was a top-level object(shape)(v) on a structured v of which
\* some declared field fails
ObjectCallWithFailingField ==
    /\ TopLevelGuardCall /\ guard.g = "object" /\ Structured(call.input)
    /\ Failing(guard.fields, call.input) # {}

C9_AtMostOneReport ==
    \A i \in Enters : Trace[i].g.g = "object" => Len(ReportsOf(i)) <= 1

(***************************************************************************)
(* C9 as amended: one call of object(shape)(v) calls errorHandler at most  *)
(* once where failures throw (no custom handler, or the flag true on       *)
(* entry): it stops at the first failure.  With a custom handler and the   *)
(* flag false it does not throw through errorHandler, and it calls the     *)
(* handler once for each failing declared field when v is structured, and  *)
(* twice when v is not (with the "is not an object" and the "Cannot cast"  *)
(* message; not at all for a v that JSON.stringify rejects).               *)
(***************************************************************************)
C9_OneReportPerFailingField ==
    \A i \in Enters :
        Trace[i].g.g = "object" =>
            LET rs == ReportsOf(i)
                v == Trace[i].val
                x == Trace[ExitOf(i)]
            IN /\ ~customErrorHandler \/ Trace[i].flag =>
                      /\ Len(rs) <= 1
                      /\ \A k \in DOMAIN rs : Trace[rs[k]].thrown /\ x.thrown
               /\ customErrorHandler /\ ~Trace[i].flag =>
                      /\ \A k \in DOMAIN rs : ~Trace[rs[k]].thrown
                      /\ x.handled = Len(rs)
                      /\ Structured(v) =>
                             /\ Len(rs) = Cardinality(Failing(Trace[i].g.fields, v))
                             /\ ~x.thrown
                      /\ ~Structured(v) =>
                             Len(rs) = IF JSONThrows(v) THEN 0 ELSE 2

\* with a custom handler, a top-level object call with two failing fields:
\* the handler is called twice
C9_Witness ==
    /\ customErrorHandler /\ ObjectCallWithFailingField
    /\ Cardinality(Failing(guard.fields, call.input)) = 2
    /\ Len(call.handled) = 2

(***************************************************************************)
(* C10: array(g)(xs) on a sequence xs calls g on the elements in sequence  *)
(* order and returns the sequence of the results; when g throws on an      *)
(* element, array throws that same error and g is called on no later       *)
(* element.                                                                *)
(***************************************************************************)
C10_ArrayInOrder ==
    \A i \in Enters :
        Trace[i].g.g = "array" /\ IsArray(Trace[i].val) =>
            LET xs == Trace[i].val.items
                ch == ChildrenOf(i)
                x == Trace[ExitOf(i)]
                out(k) == Trace[ExitOf(ch[k])]
            IN /\ Len(ch) <= Len(xs)
               /\ \A k \in DOMAIN ch :
                      /\ Trace[ch[k]].g = Trace[i].g.inner
                      /\ Trace[ch[k]].val = xs[k]
                      /\ out(k).thrown =>
                             k = Len(ch) /\ x.thrown /\ x.exc = out(k).exc
               /\ (\A k \in DOMAIN ch : ~out(k).thrown) =>
                      /\ Len(ch) = Len(xs)
                      /\ ~x.thrown
                      /\ x.ret = Arr([k \in DOMAIN ch |-> out(k).ret])
               /\ ReportsOf(i) = <<>>

\* a top-level array call on two elements that threw at the first
C10_Witness ==
    /\ TopLevelGuardCall /\ guard.g = "array" /\ IsArray(call.input)
    /\ Len(call.input.items) = 2
    /\ Len(ChildrenOf(1)) = 1
    /\ call.thrown

(***************************************************************************)
(* C11: no leakage between calls.  Whatever calls the factory has seen,    *)
(* the outcome of a top-level call (what it returns, what it throws and    *)
(* the messages the custom handler gets, in order) is the outcome of the   *)
(* same call on the same guard and input as the first call of a fresh      *)
(* factory of the same configuration, also after a call that failed.       *)
(***************************************************************************)
\* the same call, made first on a fresh factory
FreshCall ==
    Invoke(IF call.op = "is" THEN GIs(guard) ELSE guard, call.input, Run(FALSE))

C11_NoLeakage ==
    call.op # "none" =>
        LET c == FreshCall
        IN /\ call.thrown = c.thrown
           /\ call.exc = c.exc
           /\ call.val = c.val
           /\ call.handled = c.st.handled

\* after a call that failed, a call of an either guard that goes to the
\* custom handler and returns
C11_Witness ==
    /\ failed /\ customErrorHandler
    /\ call.op = "guard" /\ guard.g = "either"
    /\ ~call.thrown /\ Len(call.handled) >= 1

(***************************************************************************)
(* C12: a right-nested chain either(g1, either(g2, ... gn)) is the union   *)
(* of g1 .. gn.  Without a custom handler a top-level call on v returns v  *)
(* itself exactly when some gi does not throw on v with the flag true, and *)
(* throws otherwise.  The chain number, array(number), boolean, string     *)
(* returns 4, [4], "4" and true and throws on ["4"].                       *)
(***************************************************************************)
RECURSIVE Branches(_)
\* g1 .. gn of the chain g
Branches(g) == IF g.g = "either" THEN <<g.inner1>> \o Branches(g.inner2) ELSE <<g>>

\* the chain of the nesting test
NestingChain == GEither(GNumber, GEither(GArray(GNumber), GEither(GBoolean, GString)))

C12_EitherChainIsUnion ==
    ~customErrorHandler /\ TopLevelGuardCall /\ guard.g = "either" =>
        LET bs == Branches(guard)
            accepted == \E i \in DOMAIN bs : ~Rejects(bs[i], call.input)
        IN /\ accepted => ~call.thrown /\ call.val = call.input
           /\ ~accepted => call.thrown
           /\ guard = NestingChain =>
                  /\ call.input \in {Num(4), Arr(<<Num(4)>>), Str("4"), Bool(TRUE)} =>
                         ~call.thrown /\ call.val = call.input
                  /\ call.input = Arr(<<Str("4")>>) => call.thrown

\* the chain of the nesting test returns "4", which only its last guard
\* accepts
C12_Witness ==
    /\ ~customErrorHandler /\ TopLevelGuardCall
    /\ guard = NestingChain /\ Len(Branches(guard)) = 4
    /\ call.input = Str("4")
    /\ ~call.thrown /\ call.val = Str("4")

(***************************************************************************)
(* C13 as claimed: number, string and boolean return every input of their  *)
(* own typeof kind as it is and do not call errorHandler, with or without  *)
(* a custom handler and for either value of the flag.                      *)
(***************************************************************************)
C13_MatchingKindIsIdentity ==
    \A j \in Exits :
        Trace[j].g \in Prims /\ TypeOf(Trace[j].val) = Trace[j].g.g =>
            /\ ~Trace[j].thrown
            /\ Trace[j].ret = Trace[j].val
            /\ ReportsOf(Trace[j].from) = <<>>
            /\ Trace[j].handled = 0

(***************************************************************************)
(* C13 as amended: the same for every input of the guard's typeof kind     *)
(* other than NaN, which is of kind number and which number reports.       *)
(***************************************************************************)
C13_MatchingKindButNaNIsIdentity ==
    \A j \in Exits :
        /\ Trace[j].g \in Prims
        /\ TypeOf(Trace[j].val) = Trace[j].g.g
        /\ Trace[j].val # NaN
        => /\ ~Trace[j].thrown
           /\ Trace[j].ret = Trace[j].val
           /\ ReportsOf(Trace[j].from) = <<>>
           /\ Trace[j].handled = 0

\* with a custom handler, number returns 4 and string returns "4", each
\* entered with the flag true
C13_Witness ==
    /\ customErrorHandler
    /\ \E j \in Exits :
           /\ Trace[j].g = GNumber /\ Trace[j].val = Num(4)
           /\ Trace[j].entry /\ Trace[j].ret = Num(4)
    /\ \E j \in Exits :
           /\ Trace[j].g = GString /\ Trace[j].val = Str("4")
           /\ Trace[j].entry /\ Trace[j].ret = Str("4")

(***************************************************************************)
(* C14: when object(shape)(v) returns for a structured v, the keys of the  *)
(* result are the keys of the shape, each once: a declared field that v    *)
(* lacks is there and a field of v that the shape lacks is not.  The value *)
(* at k is what shape[k](v[k]) returned with the flag true if it did not   *)
(* throw, and v[k] itself if it threw.                                     *)
(***************************************************************************)
C14_ObjectResultHasShapeKeys ==
    \A j \in Exits :
        Trace[j].g.g = "object" /\ Structured(Trace[j].val) /\ ~Trace[j].thrown =>
            LET fs == Trace[j].g.fields
                v == Trace[j].val
                r == Trace[j].ret
            IN /\ r.t = "object"
               /\ Len(r.props) = Len(fs)
               /\ {r.props[i].k : i \in DOMAIN r.props} = {fs[i].k : i \in DOMAIN fs}
               /\ \A i \in DOMAIN fs :
                      LET c == Invoke(fs[i].g, GetProp(v, fs[i].k), Run(TRUE))
                      IN GetProp(r, fs[i].k) =
                             IF c.thrown THEN GetProp(v, fs[i].k) ELSE c.val

\* with a custom handler, a top-level object call that returns: of its two
\* declared fields one failed and the input lacks the other, and the input
\* has a field the shape does not declare
C14_Witness ==
    /\ customErrorHandler /\ TopLevelGuardCall /\ guard.g = "object"
    /\ Structured(call.input) /\ call.input.t = "object"
    /\ ~call.thrown
    /\ Len(guard.fields) = 2
    /\ Cardinality(Failing(guard.fields, call.input)) >= 1
    /\ \E i \in DOMAIN guard.fields : ~HasKey(call.input.props, guard.fields[i].k)
    /\ \E i \in DOMAIN call.input.props :
           \A n \in DOMAIN guard.fields : guard.fields[n].k # call.input.props[i].k

(***************************************************************************)
(* C15: the factory the client creates and the default factory of the      *)
(* module have a flag each.  Nothing a guard of one factory does changes   *)
(* the flag of the other, not while it runs a guard of the other factory   *)
(* with its own flag true either; passing control from one factory's guard *)
(* to the other's changes no flag; and errorHandler throws or calls the    *)
(* handler by the flag and the handler of the factory it belongs to.       *)
(***************************************************************************)
C15_IndependentFlags ==
    /\ \A i \in Enters :
           Trace[i].g.g # "foreign" =>
               LET G == Other(Trace[i].factory)
                   ch == ChildrenOf(i)
                   rs == ReportsOf(i)
               IN /\ \A k \in DOMAIN ch : Trace[ch[k]].flags[G] = Trace[i].flags[G]
                  /\ \A k \in DOMAIN rs : Trace[rs[k]].flags[G] = Trace[i].flags[G]
                  /\ Trace[ExitOf(i)].flags[G] = Trace[i].flags[G]
    /\ \A i \in Enters :
           Trace[i].g.g = "foreign" =>
               LET q == ChildrenOf(i)[1]
               IN /\ Trace[q].factory = Other(Trace[i].factory)
                  /\ Trace[q].flags = Trace[i].flags
                  /\ Trace[ExitOf(i)].flags = Trace[ExitOf(q)].flags
    /\ \A p \in Policies :
           LET own == Trace[p].flags[Trace[p].factory]
               handler == Trace[p].factory = "created" /\ customErrorHandler
           IN Trace[p].thrown <=> (own \/ ~handler)

\* is() of the default factory called on number of the created factory and
\* "4": number goes to the custom handler while the flag of the default
\* export is true, and is() answers true
C15_Witness ==
    /\ customErrorHandler
    /\ call.op = "guard" /\ guard = GForeign(GIs(GForeign(GNumber)))
    /\ call.input = Str("4")
    /\ \E p \in Policies :
           /\ Trace[p].factory = "created"
           /\ Trace[p].flags = [created |-> FALSE, default |-> TRUE]
           /\ ~Trace[p].thrown
    /\ call.val = Bool(TRUE) /\ Len(call.handled) = 2

(***************************************************************************)
(* C16: idempotence on valid input.  When a top-level call g(v) of a core  *)
(* guard returns without a failure (nothing thrown, the handler not        *)
(* called), g returns on g(v) without a failure too, and g(g(v)) = g(v).   *)
(***************************************************************************)
C16_Idempotent ==
    /\ TopLevelGuardCall /\ IsCore(guard)
    /\ ~call.thrown /\ call.handled = <<>>
    => LET again == Invoke(guard, call.val, Run(FALSE))
       IN /\ ~again.thrown
          /\ again.st.handled = <<>>
          /\ again.val = call.val

\* an object guard that returns something else than its input: the input
\* has a field that the shape does not declare
C16_Witness ==
    /\ TopLevelGuardCall /\ IsCore(guard) /\ guard.g = "object"
    /\ ~call.thrown /\ call.handled = <<>>
    /\ call.val # call.input
    /\ Invoke(guard, call.val, Run(FALSE)).val = call.val

(***************************************************************************)
(* C17: recordOf(g)(v) on a structured v calls g on the value of each key  *)
(* of v, in the order for-in visits them, with the flag as recordOf found  *)
(* it.  It does not catch: when g throws on a value, recordOf throws that  *)
(* same error, message unchanged, and calls g on no later value.  It makes *)
(* no errorHandler call of its own and never writes the flag.  When g      *)
(* throws on no value, recordOf returns g's results under the keys of v.   *)
(***************************************************************************)
C17_RecordOfPropagates ==
    \A i \in Enters :
        Trace[i].g.g = "recordOf" /\ Structured(Trace[i].val) =>
            LET v == Trace[i].val
                ks == ForInKeys(v)
                ch == ChildrenOf(i)
                x == Trace[ExitOf(i)]
                out(k) == Trace[ExitOf(ch[k])]
            IN /\ Len(ch) <= Len(ks)
               /\ \A k \in DOMAIN ch :
                      /\ Trace[ch[k]].g = Trace[i].g.inner
                      /\ Trace[ch[k]].val = GetProp(v, ks[k])
                      /\ Trace[ch[k]].flag = Trace[i].flag
                      /\ out(k).flag = Trace[i].flag
                      /\ out(k).thrown =>
                             k = Len(ch) /\ x.thrown /\ x.exc = out(k).exc
               /\ (\A k \in DOMAIN ch : ~out(k).thrown) =>
                      /\ Len(ch) = Len(ks)
                      /\ ~x.thrown
                      /\ x.ret.t = "object"
                      /\ {x.ret.props[n].k : n \in DOMAIN x.ret.props}
                             = {ks[k] : k \in DOMAIN ks}
                      /\ \A k \in DOMAIN ch : GetProp(x.ret, ks[k]) = out(k).ret
               /\ ReportsOf(i) = <<>>
               /\ x.flag = Trace[i].flag

\* without a custom handler, recordOf(number) on an object of two keys:
\* number throws on the second value and recordOf throws number's error
C17_Witness ==
    /\ ~customErrorHandler /\ TopLevelGuardCall
    /\ guard = GRecordOf(GNumber) /\ call.input.t = "object"
    /\ Len(ChildrenOf(1)) = 2
    /\ call.thrown
    /\ call.exc = Trace[ExitOf(ChildrenOf(1)[2])].exc
    /\ ~Contains(call.exc.message, "property error")

(***************************************************************************)
(* C18: number takes NaN for invalid.  number(NaN) throws when the flag is *)
(* true or there is no custom handler, with a message of its own that is   *)
(* not the message of a value of another kind; with a custom handler and   *)
(* the flag false it calls the handler once and returns NaN.  So           *)
(* is(NaN, number) is false.                                               *)
(***************************************************************************)
C18_NaNIsInvalid ==
    /\ \A j \in Exits :
           Trace[j].g = GNumber /\ Trace[j].val = NaN =>
               LET rs == ReportsOf(Trace[j].from)
               IN /\ Len(rs) = 1
                  /\ Trace[rs[1]].str = "\"NaN\" is a NaN"
                  /\ Trace[rs[1]].str # invalidType(NaN, "a " \o BT \o "number" \o BT).s
                  /\ ~Contains(Trace[rs[1]].str, "is not a")
                  /\ IF Trace[j].entry \/ ~customErrorHandler
                     THEN /\ Trace[j].thrown
                          /\ Trace[j].exc.message = Trace[rs[1]].str
                          /\ Trace[j].handled = 0
                     ELSE /\ ~Trace[j].thrown
                          /\ Trace[j].ret = NaN
                          /\ Trace[j].handled = 1
    /\ \A j \in Exits :
           Trace[j].g = GIs(GNumber) /\ Trace[j].val = NaN => Trace[j].ret = Bool(FALSE)

\* with a custom handler, the top-level call number(NaN) tells the handler
\* and returns NaN
C18_Witness ==
    /\ customErrorHandler /\ TopLevelGuardCall
    /\ guard = GNumber /\ call.input = NaN
    /\ ~call.thrown /\ call.val = NaN
    /\ call.handled = <<"\"NaN\" is a NaN">>

(***************************************************************************)
(* C19: array(g)(v) on a v that is not an array.  With the flag true or    *)
(* without a custom handler it throws the "is not an array" failure and    *)
(* does not call g.  With a custom handler and the flag false it tells the *)
(* handler that failure first, then calls g on v and returns the array of  *)
(* the one result.                                                         *)
(***************************************************************************)
C19_ArrayWrapsNonArray ==
    \A i \in Enters :
        Trace[i].g.g = "array" /\ ~IsArray(Trace[i].val) =>
            LET ch == ChildrenOf(i)
                rs == ReportsOf(i)
                x == Trace[ExitOf(i)]
                notAnArray == "is not an " \o BT \o "array" \o BT
            IN IF Trace[i].flag \/ ~customErrorHandler
               THEN /\ x.thrown
                    /\ Contains(x.exc.message, notAnArray)
                    /\ ch = <<>>
               ELSE /\ Len(rs) >= 1
                    /\ Contains(Trace[rs[1]].str, notAnArray)
                    /\ ~Trace[rs[1]].thrown
                    /\ Len(ch) = 1
                    /\ Trace[ch[1]].g = Trace[i].g.inner
                    /\ Trace[ch[1]].val = Trace[i].val
                    /\ rs[1] < ch[1]
                    /\ ~x.thrown
                    /\ x.ret = Arr(<<Trace[ExitOf(ch[1])].ret>>)

(***************************************************************************)
(* What the custom handler gets from a top-level object call.              *)
(***************************************************************************)
\* the messages of the fields of fs that fail on val, in the order of fs
FailureMessages(fs, val) ==
    LET failing == SelectSeq(fs, LAMBDA f : FieldFails(f, val))
    IN [i \in DOMAIN failing |-> FieldMessage(failing[i], val)]

\* The last call, a top-level object call, ran the guard of each field of
\* fs in the order of fs with the flag true, and the handler got the
\* messages of the failing fields of fs in that order and nothing else,
\* each time with the flag false.
ObjectReportedFields(fs) ==
    LET ch == ChildrenOf(1)
        rs == ReportsOf(1)
    IN /\ ~call.thrown
       /\ Len(ch) = Len(fs)
       /\ \A n \in DOMAIN ch :
              /\ Trace[ch[n]].g = fs[n].g
              /\ Trace[ch[n]].val = GetProp(call.input, fs[n].k)
              /\ Trace[ch[n]].flag
       /\ call.handled = FailureMessages(fs, call.input)
       /\ \A n \in DOMAIN call.handled :
              \E k \in Keys :
                  LET prefix == "Object '" \o k \o "' property error: "
                  IN SubSeq(call.handled[n], 1, Len(prefix)) = prefix
       /\ Len(rs) = Len(call.handled)
       /\ \A n \in DOMAIN rs :
              /\ Trace[rs[n]].str = call.handled[n]
              /\ ~Trace[rs[n]].flag
       /\ \A p \in Policies : Trace[p].depth > 1 => Trace[p].flag /\ Trace[p].thrown

\* the last call was a top-level object(shape)(v) on a structured v in a
\* factory with a custom handler
CustomObjectCall ==
    /\ customErrorHandler /\ TopLevelGuardCall
    /\ guard.g = "object" /\ Structured(call.input)

Coerced(g, val) ==
    CASE g.g = "string" -> Str(ToStr(val))
      [] g.g = "number" -> ToNum(val)
      [] g.g = "boolean" -> ToBool(val)

C21_KindMismatchReportsTwice ==
    \A i \in Enters :
        Trace[i].g \in Prims /\ TypeOf(Trace[i].val) # Trace[i].g.g =>
            LET rs == ReportsOf(i)
                x == Trace[ExitOf(i)]
                kind == "a " \o BT \o Trace[i].g.g \o BT
            IN IF customErrorHandler /\ ~Trace[i].flag
               THEN /\ Len(rs) = 2
                    /\ x.handled = 2
                    /\ Contains(Trace[rs[1]].str, "is not " \o kind)
                    /\ Contains(Trace[rs[2]].str, "Casting ")
                    /\ Contains(Trace[rs[2]].str, " to " \o kind)
                    /\ ~x.thrown
                    /\ x.ret = Coerced(Trace[i].g, Trace[i].val)
               ELSE /\ Len(rs) = 1
                    /\ Contains(Trace[rs[1]].str, "is not " \o kind)
                    /\ x.thrown
                    /\ x.exc.message = Trace[rs[1]].str
                    /\ x.handled = 0

(***************************************************************************)
(* Calls that interleave.                                                  *)
(***************************************************************************)
\* no call is under way
Quiescent == \A t \in Threads : ~Active(threads[t])

\* what a thread's call has come to, without the history
Program(th) == [th EXCEPT !.solo = TRUE, !.entry = FALSE]

\* While no two calls have overlapped the discipline of skipCleanup works:
\* the flag is false between calls, it is true all the time a call is
\* inside the inner guard of is or either, and is never goes to the handler.
SafeWithoutOverlap ==
    ~raced.overlapped =>
        /\ Quiescent => ~forceError
        /\ ~raced.clearedInside
        /\ \A t \in Threads :
               /\ InsideSuppressed(threads[t]) => forceError
               /\ threads[t].op = "is" => ~threads[t].handled
               /\ threads[t].pc = "done" => threads[t].solo /\ ~threads[t].entry

\* A call number(val) on a val of another kind that ran with no other call
\* under way throws when the flag was true as it began or there is no
\* custom handler, and goes to the handler and returns otherwise.
FlagDecidesLaterCall ==
    \A t \in Threads :
        LET th == threads[t]
        IN /\ th.pc = "done" /\ th.solo /\ th.op = "guard"
           /\ TypeOf(th.val) # "number"
           => /\ th.result = IF th.entry \/ ~customErrorHandler
                             THEN "raised" ELSE "returned"
              /\ th.handled = (th.result = "returned")

\* a step is of one thread: it changes the call of no other thread and
\* nothing of the factory but forceError
OnlyFlagShared ==
    /\ customErrorHandler' = customErrorHandler
    /\ \A t, u \in Threads :
           t # u /\ Program(threads'[t]) # Program(threads[t]) =>
               Program(threads'[u]) = Program(threads[u])

(***************************************************************************)
(* C22: forceError is the one thing the calls on a factory share, and the  *)
(* way is and either save and restore it is safe only while calls do not   *)
(* interleave.  Without overlap the flag is false between calls and true   *)
(* inside every suppressed inner guard.  When two calls interleave between *)
(* their reads and writes of the flag, the flag can be cleared while the   *)
(* other call is inside its suppressed inner guard, and it can stay true   *)
(* after both calls have ended; a later call that fails then throws even   *)
(* with a custom handler, as the flag it finds decides.                    *)
(***************************************************************************)
C22_FlagSafeOnlyWithoutInterleaving ==
    /\ [](SafeWithoutOverlap /\ FlagDecidesLaterCall)
    /\ [][OnlyFlagShared]_vars

\* With a custom handler: a call has cleared the flag while the other call
\* was inside its suppressed inner guard; later, with no call under way,
\* the flag was true, and number, called then on a value of another kind,
\* threw.
C22_Witness ==
    /\ customErrorHandler
    /\ raced.clearedInside
    /\ \E t \in Threads :
           /\ threads[t].pc = "done" /\ threads[t].op = "guard"
           /\ threads[t].solo /\ threads[t].entry
           /\ threads[t].result = "raised"
    /\ forceError

====
